---- MODULE Spec2Model ----
(***************************************************************************)
(* State-machine model of src/EI_subspace_RNN.py (class EI_subspace_RNN):  *)
(* the seeded topology construction of __init__, the weight codec          *)
(* (build_full_weight_matrix / get_nonzero_weight_vector), the weight      *)
(* initializer and the EM loop of fit_EM.                                  *)
(*                                                                         *)
(* Numbers.  sparsity is the rational sparsity / SpDen.  Matrix and vector *)
(* entries are floats in the code; the model keeps the finite ones as      *)
(* integers in -MaxVal .. MaxVal and has three further values PInf, NInf   *)
(* and NaN with the IEEE-754 rules the code relies on.                     *)
(* Library results the code does not compute itself (the PCG64 draws, the  *)
(* projections through pinv(J), the L-BFGS-B minimiser, the Kalman         *)
(* recursions) are nondeterministic choices within the library's contract. *)
(***************************************************************************)
EXTENDS Integers, Sequences, FiniteSets, TLC

\* ------------------------------------------------------------------ bounds
MaxN == 3          \* N_e + N_i <= MaxN
SpDen == 9         \* sparsity is one of 1/SpDen, 2/SpDen, ..., 1
MaxWeights == 4    \* only arguments with N_weights <= MaxWeights
MaxVal == 1        \* finite entries are -MaxVal .. MaxVal
MaxQuads == 2      \* length of zeta_alpha_beta_gamma_list
MaxU == 2          \* trials
MaxIter == 2       \* max_iter
MaxT == 4          \* time points of a trial: T in 2 .. MaxT

\* range(50) of the alternating projection
ProjRounds == 50

VARIABLES
  N_e,        \* self.N_e
  N_i,        \* self.N_i
  sparsity,   \* numerator of self.sparsity (= sparsity / SpDen)
  N_weights,  \* self.N_weights
  run,        \* run[r]: the constructor's locals and index lists, for the
              \* construction (r = 1) and a re-run of it with the same
              \* arguments and seed (r = 2)
  pc,         \* where the program is
  call,       \* the call in progress or made last: its name and argument
  ret,        \* what that call returned or raised
  loc         \* the locals of the initializer or of fit_EM while it runs

vars == <<N_e, N_i, sparsity, N_weights, run, pc, call, ret, loc>>

fields == <<N_e, N_i, sparsity, N_weights, run>>

\* ----------------------------------------------------------------- values
PInf == MaxVal + 1
NInf == 0 - PInf
NaN == MaxVal + 2

FinVals == (0 - MaxVal) .. MaxVal
NonNegVals == 0 .. MaxVal

IsFinite(v) == v \in FinVals

\* IEEE negation: -nan is nan
Neg(v) == IF v = NaN THEN NaN ELSE 0 - v

\* np.abs: abs(nan) is nan
Abs(v) == IF v = NaN THEN NaN ELSE IF v < 0 THEN 0 - v ELSE v

\* v >= 0 in floating point: every comparison with nan is False
GeZero(v) == v # NaN /\ v >= 0

\* ------------------------------------------------------------ __init__
N == N_e + N_i

\* round-half-up of num / den, which the code does not do
Trunc_nearest(num, den) == (2 * num + den) \div (2 * den)

\* int(x) of the non-negative quotient num / den: truncation
Trunc(num, den) == num \div den

ComputeNWeights(sp, n) == Trunc(sp * n * n, SpDen)

RECURSIVE DiagonalIndices_column(_, _)
DiagonalIndices_column(n, k) ==
  IF k = 0 THEN <<>> ELSE Append(DiagonalIndices_column(n, k - 1), n * (k - 1))

\* lines 29-31: N * i + i for i in range(N)
RECURSIVE DiagonalIndices(_, _)
DiagonalIndices(n, k) ==
  IF k = 0 THEN <<>> ELSE Append(DiagonalIndices(n, k - 1), n * (k - 1) + (k - 1))

\* size of the array rng1.integers(...) returns
RandSize == 2 * N_weights + N

Range(s) == {s[k] : k \in 1 .. Len(s)}

UnseededDraw(r, seeded, entropy) == IF r = 1 THEN seeded ELSE entropy

\* rand[i] as run r sees it: Generator(PCG64(seed)) makes the array a function
\* of the seed alone, so a re-run reads the value the first run read
DrawOf(r, seeded, entropy) == seeded

\* np.unravel_index(idx, (N, N))
Unravel(idx) == <<idx \div N, idx % N>>

\* the loop of lines 46-52 over ind in range(N_weights)
RECURSIVE Partition(_, _, _)
Partition(w, k, cls) ==
  IF k = 0 THEN <<>>
  ELSE LET rest == Partition(w, k - 1, cls)
           col == Unravel(w[k])[2]
       IN  IF cls = "pos" /\ col <= N_e - 1 THEN Append(rest, w[k])
           ELSE IF cls = "neg" /\ ~(col <= N_e - 1) /\ col >= N_e THEN Append(rest, w[k])
           ELSE rest

\* one evaluation of the while loop's test and body (lines 38-42); when the
\* test fails, lines 44-52 (the locals count and i end with __init__)
StepRun(st, v) ==
  IF st.pc # "while" THEN st
  ELSE IF st.count < N_weights - N
  THEN IF st.i >= RandSize
       THEN [st EXCEPT !.pc = "IndexError"]
       ELSE IF v \notin Range(st.w_ind)
            THEN [st EXCEPT !.w_ind = Append(@, v), !.count = @ + 1, !.i = @ + 1]
            ELSE [st EXCEPT !.i = @ + 1]
  ELSE [st EXCEPT !.pc = "done", !.count = 0, !.i = 0,
                  !.w_ind_pos = Partition(st.w_ind, N_weights, "pos"),
                  !.w_ind_neg = Partition(st.w_ind, N_weights, "neg")]

NewRun(n) ==
  [w_ind |-> DiagonalIndices(n, n), count |-> 0, i |-> 0, pc |-> "while",
   w_ind_pos |-> <<>>, w_ind_neg |-> <<>>]

NoCall == [name |-> "none", arg |-> <<>>]
NoRet == [kind |-> "none", val |-> <<>>]
NoLoc == [op |-> "none"]

\* the fields of the object under construction
w_ind == run[1].w_ind
w_ind_pos == run[1].w_ind_pos
w_ind_neg == run[1].w_ind_neg

\* ------------------------------------------------------------ the codec
Cells == (0 .. N - 1) \X (0 .. N - 1)

\* np.zeros((N, N))
Zeros == [c \in Cells |-> 0]

Raised(what) == [kind |-> "raised", val |-> what]

LengthDiffers_shorter(len, n) == len < n

\* line 56: w.shape[0] != self.N_weights
LengthDiffers(len, n) == len # n

\* the loop of lines 58-64 over ind in range(k); W is a matrix or a raise
RECURSIVE DecodeLoop(_, _)
DecodeLoop(w, k) ==
  IF k = 0 THEN [kind |-> "matrix", val |-> Zeros]
  ELSE LET prev == DecodeLoop(w, k - 1)
       IN  IF prev.kind = "raised" THEN prev
           ELSE IF w_ind[k] \in Range(w_ind_pos)
                THEN [prev EXCEPT !.val[Unravel(w_ind[k])] = w[k]]
           ELSE IF w_ind[k] \in Range(w_ind_neg)
                THEN [prev EXCEPT !.val[Unravel(w_ind[k])] = Neg(w[k])]
           ELSE Raised("IndexBeyondShape")

\* lines 54-65
BuildFullWeightMatrix(w) ==
  IF LengthDiffers(Len(w), N_weights) THEN Raised("ShapeMismatch")
  ELSE DecodeLoop(w, N_weights)

\* lines 129-132: the entry read for one topology index (0 when the index is
\* in neither class: w keeps the zero of np.zeros)
EncodeEntry(W, idx) ==
  IF idx \in Range(w_ind_pos) THEN W[Unravel(idx)]
  ELSE IF idx \in Range(w_ind_neg) THEN Neg(W[Unravel(idx)])
  ELSE 0

\* lines 126-133
GetNonzeroWeightVector(W) == [k \in 1 .. N_weights |-> EncodeEntry(W, w_ind[k])]

\* the vectors a caller hands to build_full_weight_matrix: the right length
\* with any signs, and one entry too few or too many
WeightVectors ==
  [1 .. N_weights -> FinVals]
    \cup [1 .. N_weights + 1 -> NonNegVals]
    \cup (IF N_weights > 0 THEN [1 .. N_weights - 1 -> NonNegVals] ELSE {})

\* the matrices a caller hands to get_nonzero_weight_vector: any values on
\* the indices self.w_ind holds, zero elsewhere
TopologyMatrices ==
  {[c \in Cells |-> IF N * c[1] + c[2] \in Range(w_ind) THEN f[N * c[1] + c[2]] ELSE 0] :
     f \in [Range(w_ind) -> FinVals]}

\* vectors of length n whose odd entries are one value of S and whose even
\* entries are another: the small family the library results and the
\* callers' vectors are drawn from
PatternVectors(n, S) ==
  {[k \in 1 .. n |-> IF k % 2 = 1 THEN ab[1] ELSE ab[2]] : ab \in S \X S}

\* the vectors handed to fit_EM and to the methods that decode their
\* argument: the right length with any signs, one entry too few or too many
CallerVectors ==
  PatternVectors(N_weights, FinVals)
    \cup PatternVectors(N_weights + 1, NonNegVals)
    \cup (IF N_weights > 0 THEN PatternVectors(N_weights - 1, NonNegVals) ELSE {})

\* vectors of length n with every entry the same value of S
ConstantVectors(n, S) == {[k \in 1 .. n |-> v] : v \in S}

\* the init_w handed to fit_EM
FitVectors ==
  ConstantVectors(N_weights, FinVals)
    \cup ConstantVectors(N_weights + 1, NonNegVals)
    \cup (IF N_weights > 0 THEN ConstantVectors(N_weights - 1, NonNegVals) ELSE {})

AllGeZero(w) == \A k \in 1 .. Len(w) : GeZero(w[k])

\* -------------------------------------------- the methods that decode
\* the methods that reshape their argument to (N_weights, 1) before decoding
ReshapingMethods ==
  {"loss_weights_target_LDS", "gradient_weights_target_LDS",
   "check_loss_weights_LDS", "check_loss_weights"}

DecodingMethods ==
  ReshapingMethods \cup
  {"Kalman_filter_E_step", "closed_form_M_step", "loss_weights_M_step",
   "gradient_weights_M_step"}

\* the first statement of each of these methods: the reshape, where there is
\* one, raises when the size is not N_weights; then build_full_weight_matrix
FirstDecode(name, w) ==
  IF name \in ReshapingMethods /\ Len(w) # N_weights THEN Raised("ReshapeError")
  ELSE BuildFullWeightMatrix(w)

\* ------------------------------------------------------ the initializer
\* generate_stable_weights, lines 75-78: R / sqrt(sparsity * (1 - sparsity))
\* / sqrt(N) with R > 0 is inf when sparsity = 1 (a float division by 0.0)
\* and a positive finite number otherwise (1 stands for it)
StableFill(sp) == IF sp * (SpDen - sp) = 0 THEN PInf ELSE 1

GenerateStableWeights == [k \in 1 .. N_weights |-> StableFill(sparsity)]

\* lines 92 and 95: products and sums with pinv(J) @ J and with ones.  An
\* entry that is inf or nan makes every entry of line 92's result inf or nan,
\* and line 95 subtracts from each row its own sum, inf - inf: all nan.
\* Finite entries give finite entries that depend on J: here a on the cells
\* with row + column even, b on the others
Project(W, a, b) ==
  IF \E c \in Cells : ~IsFinite(W[c]) THEN [c \in Cells |-> NaN]
  ELSE [c \in Cells |-> IF (c[1] + c[2]) % 2 = 0 THEN a ELSE b]

\* line 98: np.abs(self.get_nonzero_weight_vector(W0))
AbsEncode(W) == [k \in 1 .. N_weights |-> Abs(GetNonzeroWeightVector(W)[k])]

\* minimize(..., x0, method='L-BFGS-B', bounds=[(0, inf)] * n).x: some point
\* within the bounds; from a start that holds nan, that or nan
Minimize(x0) ==
  ConstantVectors(Len(x0), NonNegVals)
    \cup (IF \E k \in 1 .. Len(x0) : x0[k] = NaN
          THEN {[k \in 1 .. Len(x0) |-> NaN]} ELSE {})

\* ---------------------------------------------------------------- fit_EM
\* twice the third term of check_loss_weights, 1' W' W 1: the sum over the
\* rows of the squared row sum
RECURSIVE RowSum(_, _, _)
RowSum(W, r, k) == IF k = 0 THEN 0 ELSE RowSum(W, r, k - 1) + W[<<r, k - 1>>]

RECURSIVE RowSumEnergy(_, _)
RowSumEnergy(W, k) ==
  IF k = 0 THEN 0
  ELSE RowSumEnergy(W, k - 1) + RowSum(W, k - 1, N) * RowSum(W, k - 1, N)

\* twice the second term, the squared norm of J W (I - pinv(J) J), for the
\* projection J = (1 0 ... 0) onto unit 0 (K = 1): row 0 of W without its
\* first entry
RECURSIVE LeakEnergy(_, _)
LeakEnergy(W, k) ==
  IF k <= 1 THEN 0 ELSE LeakEnergy(W, k - 1) + W[<<0, k - 1>>] * W[<<0, k - 1>>]

\* the values of the first term, which depends on the data: either sign
LossVals == {0 - 1, 1}

\* a row of loss_W as np.zeros leaves it
ZeroRow == [written |-> FALSE, terms |-> <<0, 0, 0>>, w_ver |-> 0, par_ver |-> 0, m_pass |-> 0]

\* check_loss_weights(w, b, s, m, cov, cov_next), lines 456-485
LossRow(l, l1) ==
  [written |-> TRUE,
   terms |-> <<l1, LeakEnergy(BuildFullWeightMatrix(l.w).val, N),
               RowSumEnergy(BuildFullWeightMatrix(l.w).val, N)>>,
   w_ver |-> l.w_ver, par_ver |-> l.par_ver, m_pass |-> l.m_pass]

NextRow_same(it) == it

\* line 539: the row written after the M-step of iteration iter is iter + 1
NextRow(it) == it + 1

\* t_s = int(T/2) (lines 240, 297, 390, 424, 463)
SwitchTime(T) == T \div 2

FilterInput_current(t, T) == IF t >= SwitchTime(T) THEN 1 ELSE 0

\* line 255: the prior of step t is A @ mu[t-1] + b[t-1 >= t_s]
FilterInput(t, T) == IF t - 1 >= SwitchTime(T) THEN 1 ELSE 0

\* lines 253-255, for t in range(1, T): the pairs <<step the transition
\* leaves, index of the input added>>
FilterInputs(T) == {<<t - 1, FilterInput(t, T)>> : t \in 1 .. T - 1}

\* the indices of the slice a:b of an axis of length len, in order
PySlice(a, b, len) ==
  LET hi == IF b < len THEN b ELSE len
  IN  [j \in 1 .. (IF hi > a THEN hi - a ELSE 0) |-> a + j - 1]

\* lines 329-330: b[k] is the mean of m over the slice next minus A times the
\* mean of m over the slice prev
ClosedFormSlices(T) ==
  [k \in {0, 1} |->
     IF k = 0
     THEN [next |-> PySlice(1, SwitchTime(T) + 1, T), prev |-> PySlice(0, SwitchTime(T), T)]
     ELSE [next |-> PySlice(SwitchTime(T) + 1, T, T), prev |-> PySlice(SwitchTime(T), T - 1, T)]]

\* b[t >= t_s] (lines 337, 398, 432, 471)
InputAt(t, T) == IF t >= SwitchTime(T) THEN 1 ELSE 0

\* lines 335-337: for t in range(0, T), if t != T-1
SAuxInputs(T) == {<<t, InputAt(t, T)>> : t \in {x \in 0 .. T - 1 : x # T - 1}}

\* lines 395-398, 429-432, 468-471: for t in range(0, T-1)
LossInputs(T) == {<<t, InputAt(t, T)>> : t \in 0 .. T - 2}

WarmStart_restart(l) == call.arg

\* line 537: the optimizer starts from w.flatten(), the vector the iteration
\* holds
WarmStart(l) == l.w

\* the parameters a call of Kalman_filter_E_step is handed (lines 508, 526),
\* by the version of w and of (b, s, mu0, Q0, C_, d, R)
FilterArgs(l) == <<l.w_ver, l.par_ver>>

LoopContinues_stopsEarly(l) == l.iter < l.max_iter /\ l.loss_W[l.iter + 1].terms[1] < 0

\* line 513: for iter in range(max_iter)
LoopContinues(l) == l.iter < l.max_iter

Init ==
  /\ N_e \in 1 .. MaxN - 1
  /\ N_i \in 1 .. MaxN - 1
  /\ N_e + N_i <= MaxN
  /\ sparsity \in 1 .. SpDen
  /\ N_weights = ComputeNWeights(sparsity, N_e + N_i)
  /\ N_weights <= MaxWeights
  /\ run = [r \in 1 .. 2 |-> NewRun(N_e + N_i)]
  /\ pc = "ctor"
  /\ call = NoCall
  /\ ret = NoRet
  /\ loc = NoLoc

\* lines 38-42: the loop reads rand[i]
CtorLoop ==
  /\ pc = "ctor"
  /\ run[1].count < N_weights - N
  /\ run[1].i < RandSize
  /\ \E seeded \in 0 .. N * N - 1 : \E entropy \in 0 .. N * N - 1 :
       run' = [r \in 1 .. 2 |-> StepRun(run[r], DrawOf(r, seeded, entropy))]
  /\ UNCHANGED <<N_e, N_i, sparsity, N_weights, pc, call, ret, loc>>

\* line 39 with i = len(rand): IndexError leaves __init__, no object exists
CtorIndexError ==
  /\ pc = "ctor"
  /\ run[1].count < N_weights - N
  /\ run[1].i >= RandSize
  /\ run' = [r \in 1 .. 2 |-> StepRun(run[r], 0)]
  /\ pc' = "ctor_raised"
  /\ UNCHANGED <<N_e, N_i, sparsity, N_weights, call, ret, loc>>

\* lines 44-52: the loop is over, the sign classes are filled
CtorFinish ==
  /\ pc = "ctor"
  /\ run[1].count >= N_weights - N
  /\ run' = [r \in 1 .. 2 |-> StepRun(run[r], 0)]
  /\ pc' = "ready"
  /\ UNCHANGED <<N_e, N_i, sparsity, N_weights, call, ret, loc>>

\* a caller decodes a weight vector
CallBuildFullWeightMatrix ==
  /\ pc = "ready"
  /\ \E w \in WeightVectors :
       /\ call' = [name |-> "build_full_weight_matrix", arg |-> w]
       /\ ret' = BuildFullWeightMatrix(w)
  /\ pc' = "returned"
  /\ UNCHANGED <<fields, loc>>

\* a caller encodes a matrix
CallGetNonzeroWeightVector ==
  /\ pc = "ready"
  /\ \E W \in TopologyMatrices :
       /\ call' = [name |-> "get_nonzero_weight_vector", arg |-> W]
       /\ ret' = [kind |-> "vector", val |-> GetNonzeroWeightVector(W)]
  /\ pc' = "returned"
  /\ UNCHANGED <<fields, loc>>

\* the caller has its result (or its exception); the object is idle again
Return ==
  /\ pc = "returned"
  /\ pc' = "ready"
  /\ call' = NoCall
  /\ ret' = NoRet
  /\ loc' = NoLoc
  /\ UNCHANGED fields

\* a caller calls, with its own vector, one of the methods that decode it
CallDecodingMethod ==
  /\ pc = "ready"
  /\ \E name \in DecodingMethods : \E w \in CallerVectors :
       /\ call' = [name |-> name, arg |-> w]
       /\ \/ ret' = (IF FirstDecode(name, w).kind = "raised"
                     THEN FirstDecode(name, w) ELSE [kind |-> "value", val |-> <<>>])
          \/ /\ FirstDecode(name, w).kind # "raised"
             /\ ret' = Raised("LinAlgError")
  /\ pc' = "returned"
  /\ UNCHANGED <<fields, loc>>

\* generate_or_initialize_weights_from_dynamics_LDS, lines 86-89
InitializerStart ==
  /\ pc = "ready"
  /\ \E q \in 0 .. MaxQuads :
       loc' = [op |-> "initializer", w0 |-> GenerateStableWeights, iter |-> 0,
               nquads |-> q, ind |-> 0, w_old |-> <<>>, w_bound |-> FALSE]
  /\ call' = [name |-> "generate_or_initialize_weights_from_dynamics_LDS", arg |-> <<>>]
  /\ pc' = "init_round"
  /\ UNCHANGED <<fields, ret>>

\* one round of lines 90-99
InitializerRound ==
  /\ pc = "init_round"
  /\ loc.iter < ProjRounds
  /\ \E a \in FinVals : \E b \in FinVals :
       loc' = [loc EXCEPT
                 !.w0 = AbsEncode(Project(BuildFullWeightMatrix(loc.w0).val, a, b)),
                 !.iter = @ + 1]
  /\ UNCHANGED <<fields, pc, call, ret>>

\* lines 104-106
InitializerRoundsDone ==
  /\ pc = "init_round"
  /\ loc.iter >= ProjRounds
  /\ loc' = [loc EXCEPT !.w_old = loc.w0]
  /\ pc' = "init_refine"
  /\ UNCHANGED <<fields, call, ret>>

\* one quadruple of lines 108-119
InitializerRefine ==
  /\ pc = "init_refine"
  /\ loc.ind < loc.nquads
  /\ \E w \in Minimize(loc.w_old) :
       loc' = [loc EXCEPT !.w_old = w, !.w_bound = TRUE, !.ind = @ + 1]
  /\ UNCHANGED <<fields, pc, call, ret>>

\* lines 121-124; with an empty list w was never assigned
InitializerReturn ==
  /\ pc = "init_refine"
  /\ loc.ind >= loc.nquads
  /\ ret' = (IF loc.w_bound
             THEN [kind |-> "initializer",
                   val |-> [W0 |-> BuildFullWeightMatrix(loc.w0).val,
                            W |-> BuildFullWeightMatrix(loc.w_old).val]]
             ELSE Raised("UnboundLocalError"))
  /\ pc' = "returned"
  /\ UNCHANGED <<fields, call, loc>>

\* fit_EM, lines 489-505: the copies, and the first decode of w
FitStart ==
  /\ pc = "ready"
  /\ \E U \in 1 .. MaxU : \E T \in 2 .. MaxT : \E max_iter \in 0 .. MaxIter :
     \E init_w \in FitVectors :
       /\ call' = [name |-> "fit_EM", arg |-> init_w]
       /\ IF BuildFullWeightMatrix(init_w).kind = "raised"
          THEN /\ ret' = BuildFullWeightMatrix(init_w)
               /\ pc' = "returned"
               /\ loc' = NoLoc
          ELSE /\ ret' = NoRet
               /\ pc' = "fit_filter"
               /\ loc' = [op |-> "fit_EM", U |-> U, T |-> T, max_iter |-> max_iter,
                          w |-> init_w, iter |-> 0, u |-> 0, pass |-> 0,
                          w_ver |-> 0, par_ver |-> 0, m_pass |-> 0,
                          loss_W |-> <<>>, n_closed |-> 0, n_opt |-> 0, n_filter |-> 0,
                          e_args |-> <<>>, x0 |-> <<>>,
                          f_in |-> {}, b_seg |-> <<>>, s_in |-> {}, l_in |-> {}]
  /\ UNCHANGED fields

\* lines 508 and 526: Kalman_filter_E_step(y[u], w, b, s, mu0, Q0, C_, d, R)
FitFilter ==
  /\ pc = "fit_filter"
  /\ BuildFullWeightMatrix(loc.w).kind = "matrix"
  /\ loc' = [loc EXCEPT !.n_filter = @ + 1, !.e_args = Append(@, FilterArgs(loc)),
                        !.f_in = FilterInputs(loc.T)]
  /\ pc' = "fit_smoother"
  /\ UNCHANGED <<fields, call, ret>>

\* lines 509 and 527: Kalman_smoother_E_step fills m[u], cov[u], cov_next[u]
FitSmoother ==
  /\ pc = "fit_smoother"
  /\ loc' = [loc EXCEPT !.u = @ + 1,
                        !.m_pass = IF loc.u + 1 = loc.U THEN loc.pass ELSE @]
  /\ pc' = IF loc.u + 1 < loc.U THEN "fit_filter"
           ELSE IF loc.pass = 0 THEN "fit_loss0" ELSE "fit_closed_form"
  /\ UNCHANGED <<fields, call, ret>>

\* np.linalg.inv of a singular matrix (lines 250-260, 280, 323, 331)
FitLinAlgError ==
  /\ pc \in {"fit_filter", "fit_smoother", "fit_closed_form"}
  /\ ret' = Raised("LinAlgError")
  /\ pc' = "returned"
  /\ loc' = NoLoc
  /\ UNCHANGED <<fields, call>>

\* lines 510-511
FitLoss0 ==
  /\ pc = "fit_loss0"
  /\ \E l1 \in LossVals :
       loc' = [loc EXCEPT
                 !.loss_W = [k \in 1 .. loc.max_iter + 1 |->
                               IF k = 1 THEN LossRow(loc, l1) ELSE ZeroRow],
                 !.l_in = LossInputs(loc.T)]
  /\ pc' = "fit_loop"
  /\ UNCHANGED <<fields, call, ret>>

\* lines 513-522: the loop goes on
FitIterate ==
  /\ pc = "fit_loop"
  /\ LoopContinues(loc)
  /\ BuildFullWeightMatrix(loc.w).kind = "matrix"
  /\ loc' = [loc EXCEPT !.u = 0, !.pass = loc.iter + 1, !.e_args = <<>>]
  /\ pc' = "fit_filter"
  /\ UNCHANGED <<fields, call, ret>>

\* line 533: closed_form_M_step(y, w, m, cov, cov_next)
FitClosedForm ==
  /\ pc = "fit_closed_form"
  /\ BuildFullWeightMatrix(loc.w).kind = "matrix"
  /\ loc' = [loc EXCEPT !.par_ver = loc.iter + 1, !.n_closed = @ + 1,
                        !.b_seg = ClosedFormSlices(loc.T),
                        !.s_in = SAuxInputs(loc.T)]
  /\ pc' = "fit_optimize"
  /\ UNCHANGED <<fields, call, ret>>

\* lines 534-537
FitOptimize ==
  /\ pc = "fit_optimize"
  /\ \E w \in Minimize(WarmStart(loc)) :
       loc' = [loc EXCEPT !.w = w, !.w_ver = loc.iter + 1, !.n_opt = @ + 1,
                          !.x0 = WarmStart(loc), !.l_in = LossInputs(loc.T)]
  /\ pc' = "fit_loss"
  /\ UNCHANGED <<fields, call, ret>>

\* line 539, and the end of the loop body (minimize's start vector is gone)
FitLoss ==
  /\ pc = "fit_loss"
  /\ \E l1 \in LossVals :
       loc' = [loc EXCEPT !.loss_W[NextRow(loc.iter) + 1] = LossRow(loc, l1),
                          !.iter = @ + 1, !.x0 = <<>>, !.l_in = LossInputs(loc.T)]
  /\ pc' = "fit_loop"
  /\ UNCHANGED <<fields, call, ret>>

\* line 541
FitReturn ==
  /\ pc = "fit_loop"
  /\ ~LoopContinues(loc)
  /\ ret' = [kind |-> "fit", val |-> [loss_W |-> loc.loss_W, w |-> loc.w]]
  /\ pc' = "returned"
  /\ UNCHANGED <<fields, call, loc>>

Next ==
  \/ CtorLoop
  \/ CtorIndexError
  \/ CtorFinish
  \/ CallBuildFullWeightMatrix
  \/ CallGetNonzeroWeightVector
  \/ CallDecodingMethod
  \/ InitializerStart
  \/ InitializerRound
  \/ InitializerRoundsDone
  \/ InitializerRefine
  \/ InitializerReturn
  \/ FitStart
  \/ FitFilter
  \/ FitSmoother
  \/ FitLinAlgError
  \/ FitLoss0
  \/ FitIterate
  \/ FitClosedForm
  \/ FitOptimize
  \/ FitLoss
  \/ FitReturn
  \/ Return

Spec == Init /\ [][Next]_vars

\* ------------------------------------------------------------ properties
Constructed == pc \notin {"ctor", "ctor_raised"}

FitPcs ==
  {"fit_filter", "fit_smoother", "fit_loss0", "fit_loop", "fit_closed_form",
   "fit_optimize", "fit_loss"}

FitReturned == pc = "returned" /\ call.name = "fit_EM" /\ ret.kind = "fit"

InFit == pc \in FitPcs \/ FitReturned

Distinct(q) == \A a \in 1 .. Len(q) : \A b \in 1 .. Len(q) : q[a] = q[b] => a = b

IsDiagonal(idx) == Unravel(idx)[1] = Unravel(idx)[2]

Flat(c) == N * c[1] + c[2]

\* C1: for every (N_e, N_i, sparsity, seed) and every draw stream, __init__
\* ends without error with exactly N_weights pairwise-distinct indices: the N
\* diagonal ones and N_weights - N distinct non-diagonal ones.  (Stated for
\* the arguments with N_weights >= N; with N_weights < N the list keeps its
\* N diagonal indices, which already is more than N_weights.)
C1_ConstructionCompletes ==
  /\ pc # "ctor_raised"
  /\ (Constructed /\ N_weights >= N) =>
       /\ Len(w_ind) = N_weights
       /\ Distinct(w_ind)
       /\ \A d \in 0 .. N - 1 : \E k \in 1 .. Len(w_ind) : w_ind[k] = N * d + d
       /\ Cardinality({k \in 1 .. Len(w_ind) : ~IsDiagonal(w_ind[k])}) = N_weights - N

\* C2 as stated: N_weights is sparsity * N^2 rounded to the nearest integer
\* (at most 1/2 away from it).
C2_RoundsToNearest ==
  /\ 2 * (N_weights * SpDen - sparsity * N * N) <= SpDen
  /\ 2 * (sparsity * N * N - N_weights * SpDen) <= SpDen

\* C2 as amended: N_weights is sparsity * N^2 truncated, the largest integer
\* not above it.
C2_Truncates ==
  /\ N_weights * SpDen <= sparsity * N * N
  /\ sparsity * N * N < (N_weights + 1) * SpDen

C2_Witness ==
  /\ pc = "ready"
  /\ 2 * (sparsity * N * N - N_weights * SpDen) > SpDen

C4_DiagonalsInTopology ==
  (Constructed /\ sparsity * N >= SpDen) =>
    \A d \in 0 .. N - 1 : \E k \in 1 .. N_weights :
      /\ k <= Len(w_ind)
      /\ w_ind[k] = N * d + d
      /\ (w_ind[k] \in Range(w_ind_pos)) # (w_ind[k] \in Range(w_ind_neg))
      /\ (call.name = "build_full_weight_matrix" /\ ret.kind = "matrix") =>
           ret.val[<<d, d>>] = IF d < N_e THEN call.arg[k] ELSE Neg(call.arg[k])

C4_Witness ==
  /\ pc = "returned"
  /\ sparsity * N >= SpDen
  /\ N = MaxN
  /\ call.name = "build_full_weight_matrix"
  /\ ret.kind = "matrix"
  /\ \A d \in 0 .. N - 1 : ret.val[<<d, d>>] # 0

\* C5: Dale's law after decode: for a non-negative w every non-zero entry
\* (i, j) of build_full_weight_matrix(w) is positive iff j < N_e and negative
\* iff j >= N_e, every entry outside the topology is zero, and every topology
\* index is in exactly one of the two sign classes.
C5_DalesLaw ==
  Constructed =>
    /\ \A idx \in Range(w_ind) :
         (idx \in Range(w_ind_pos)) # (idx \in Range(w_ind_neg))
    /\ (call.name = "build_full_weight_matrix" /\ ret.kind = "matrix"
        /\ AllGeZero(call.arg)) =>
         \A c \in Cells :
           /\ ret.val[c] # 0 =>
                /\ ret.val[c] > 0 <=> c[2] < N_e
                /\ ret.val[c] < 0 <=> c[2] >= N_e
           /\ Flat(c) \notin Range(w_ind) => ret.val[c] = 0

CorrectlySigned(W) ==
  \A c \in Cells : /\ c[2] < N_e => W[c] >= 0
                   /\ c[2] >= N_e => W[c] <= 0

\* C6: round trip: for every W that is zero outside the topology and correctly
\* signed on it, decode(encode(W)) = W and encode(W) >= 0; and
\* encode(decode(w)) = w for every w of length N_weights.
C6_RoundTrip ==
  /\ (pc = "returned" /\ call.name = "get_nonzero_weight_vector"
      /\ CorrectlySigned(call.arg)) =>
       /\ BuildFullWeightMatrix(ret.val) = [kind |-> "matrix", val |-> call.arg]
       /\ AllGeZero(ret.val)
  /\ (pc = "returned" /\ call.name = "build_full_weight_matrix"
      /\ Len(call.arg) = N_weights) =>
       /\ ret.kind = "matrix"
       /\ GetNonzeroWeightVector(ret.val) = call.arg

\* C7: a call of build_full_weight_matrix, of a method that decodes its
\* argument or of fit_EM with a vector whose length is not N_weights raises at
\* once: the step of the call ends it with an error and no result, runs no
\* part of the operation, and leaves every field of the object unchanged.
C7_ShapeMismatch ==
  [][(/\ pc = "ready"
      /\ pc' # "ready"
      /\ call'.name \in DecodingMethods \cup {"build_full_weight_matrix", "fit_EM"}
      /\ Len(call'.arg) # N_weights)
     => /\ pc' = "returned"
        /\ ret'.kind = "raised"
        /\ ret'.val \in {"ShapeMismatch", "ReshapeError"}
        /\ loc' = NoLoc
        /\ fields' = fields]_vars

C7_Witness ==
  /\ pc = "returned"
  /\ call.name = "fit_EM"
  /\ Len(call.arg) = N_weights + 1
  /\ ret = Raised("ShapeMismatch")

\* C8: every weight vector the initializer holds (the stable fill, after each
\* projection round, after each refinement) and every weight vector fit_EM
\* holds after an M-step is >= 0 in every entry; so is, for a non-negative
\* init_w, the vector fit_EM holds in every state.
C8_NonNegative ==
  /\ pc \in {"init_round", "init_refine"} =>
       /\ AllGeZero(loc.w0)
       /\ AllGeZero(loc.w_old)
  /\ (InFit /\ (loc.w_ver > 0 \/ AllGeZero(call.arg))) => AllGeZero(loc.w)

\* C9: fit_EM returns only after exactly max_iter iterations, each with one
\* E-step over the U trials, one closed-form M-step and one weight
\* optimization, whatever the loss values; while iterations remain the loop
\* goes on, and when none remains it returns.
C9_FullBudget ==
  /\ pc \in FitPcs =>
       /\ loc.iter <= loc.max_iter
       /\ loc.n_closed = loc.iter + (IF pc \in {"fit_optimize", "fit_loss"} THEN 1 ELSE 0)
       /\ loc.n_opt = loc.iter + (IF pc = "fit_loss" THEN 1 ELSE 0)
  /\ (pc = "fit_loop" /\ loc.iter < loc.max_iter) => ENABLED FitIterate /\ ~ENABLED FitReturn
  /\ (pc = "fit_loop" /\ loc.iter >= loc.max_iter) => ENABLED FitReturn /\ ~ENABLED FitIterate
  /\ FitReturned =>
       /\ loc.iter = loc.max_iter
       /\ loc.n_opt = loc.max_iter
       /\ loc.n_closed = loc.max_iter
       /\ loc.n_filter = (loc.max_iter + 1) * loc.U

C9_Witness ==
  /\ FitReturned
  /\ loc.max_iter = MaxIter
  /\ loc.U = MaxU
  /\ \E k \in 1 .. loc.max_iter : loc.loss_W[k + 1].terms[1] > loc.loss_W[k].terms[1]

\* the rows of the loss trace: row 0 from init_w and the initial b, s; row k
\* from the w, b, s of iteration k's M-step and the statistics of iteration
\* k's E-step; the rows of later iterations still as allocated
RowsAsClaimed ==
  InFit =>
    \/ loc.loss_W = <<>> /\ loc.iter = 0 /\ pc \in {"fit_filter", "fit_smoother", "fit_loss0"}
    \/ /\ Len(loc.loss_W) = loc.max_iter + 1
       /\ \A k \in 0 .. loc.max_iter :
            /\ Len(loc.loss_W[k + 1].terms) = 3
            /\ loc.loss_W[k + 1].written <=> k <= loc.iter
            /\ loc.loss_W[k + 1].written =>
                 /\ loc.loss_W[k + 1].w_ver = k
                 /\ loc.loss_W[k + 1].par_ver = k
                 /\ loc.loss_W[k + 1].m_pass = k
            /\ ~loc.loss_W[k + 1].written => loc.loss_W[k + 1] = ZeroRow

\* C10 as stated: the trace has max_iter + 1 rows of three terms, row k comes
\* from iteration k's M-step, and row 0 is evaluated before the first E-step:
\* no filter call has run while row 0 is not written.
C10_Row0BeforeFirstEStep ==
  /\ RowsAsClaimed
  /\ (pc \in FitPcs /\ loc.loss_W = <<>>) => loc.n_filter = 0

\* C10 as amended: as stated, except that row 0 is evaluated after a first
\* filter and smoother pass over all U trials with the initial parameters,
\* and before the first iteration of the loop; no written row changes later.
C10_LossTrace ==
  [][/\ RowsAsClaimed'
     /\ (pc = "fit_loss0" /\ pc' = "fit_loop") =>
          /\ loc.n_filter = loc.U
          /\ loc.n_closed = 0
          /\ loc'.loss_W[1].written
     /\ (InFit /\ InFit' /\ loc.loss_W # <<>>) =>
          \A k \in 1 .. Len(loc.loss_W) :
            loc.loss_W[k].written => loc'.loss_W[k] = loc.loss_W[k]]_vars

C10_Witness ==
  /\ FitReturned
  /\ loc.max_iter = MaxIter
  /\ \A k \in 1 .. MaxIter + 1 : loc.loss_W[k].written
  /\ loc.loss_W[1].terms[1] # loc.loss_W[2].terms[1]

\* C11: in every iteration of fit_EM each trial is filtered and then smoothed,
\* every filter call of the pass gets the same parameters and no step of the
\* E-step changes them; closed_form_M_step runs only after the U-th trial is
\* smoothed and leaves w unchanged; the optimizer runs next, starts from the w
\* the iteration held and uses the b, s of this iteration's closed-form step
\* and the statistics of this iteration's E-step.
C11_IterationOrder ==
  [][/\ (pc = "fit_filter" /\ pc' \in FitPcs) =>
          /\ pc' = "fit_smoother"
          /\ loc'.u = loc.u
          /\ <<loc'.w, loc'.w_ver, loc'.par_ver>> = <<loc.w, loc.w_ver, loc.par_ver>>
     /\ (pc = "fit_smoother" /\ pc' \in FitPcs) =>
          /\ loc'.u = loc.u + 1
          /\ Len(loc.e_args) = loc'.u
          /\ <<loc'.w, loc'.w_ver, loc'.par_ver>> = <<loc.w, loc.w_ver, loc.par_ver>>
          /\ loc'.u < loc.U => pc' = "fit_filter"
          /\ (loc'.u = loc.U /\ loc.pass > 0) => pc' = "fit_closed_form"
     /\ pc' = "fit_closed_form" =>
          /\ pc = "fit_smoother"
          /\ loc'.u = loc'.U
          /\ loc'.pass = loc'.iter + 1
          /\ Len(loc'.e_args) = loc'.U
          /\ \A k \in 1 .. loc'.U : loc'.e_args[k] = <<loc'.w_ver, loc'.par_ver>>
     /\ (pc = "fit_closed_form" /\ pc' \in FitPcs) =>
          /\ pc' = "fit_optimize"
          /\ loc'.w = loc.w
          /\ loc'.w_ver = loc.w_ver
          /\ loc'.par_ver = loc.iter + 1
     /\ pc' = "fit_optimize" => pc = "fit_closed_form"
     /\ pc = "fit_optimize" =>
          /\ pc' = "fit_loss"
          /\ loc'.x0 = loc.w
          /\ loc'.w \in Minimize(loc.w)
          /\ loc'.par_ver = loc.iter + 1
          /\ loc'.m_pass = loc.iter + 1
          /\ loc'.w_ver = loc.iter + 1]_vars

C11_Witness ==
  /\ pc = "fit_loss"
  /\ loc.iter = 1
  /\ loc.U = MaxU
  /\ loc.x0 # call.arg
  /\ loc.w # loc.x0

\* the input of the transition from step t to step t+1 of a trial of T steps:
\* 0 iff t < floor(T/2), 1 iff t >= floor(T/2)
SegmentOf(t, T) == IF 2 * (t + 1) <= T THEN 0 ELSE 1

Transitions(T) == {<<t, SegmentOf(t, T)>> : t \in 0 .. T - 2}

\* C12: with t_s = floor(T/2), for every T >= 2 and every transition from
\* step t to step t+1 (0 <= t <= T-2), the Kalman filter, the closed-form
\* updates of b[0], b[1] and of s, and the weight loss and gradient attribute
\* the transition to the same input, b[0] iff t < t_s and b[1] iff t >= t_s,
\* and to exactly one of the two.
C12_SegmentConsistency ==
  InFit =>
    /\ loc.n_filter > 0 => loc.f_in = Transitions(loc.T)
    /\ loc.loss_W # <<>> => loc.l_in = Transitions(loc.T)
    /\ loc.n_closed > 0 =>
         /\ loc.s_in = Transitions(loc.T)
         /\ \A k \in {0, 1} :
              /\ Len(loc.b_seg[k].next) = Len(loc.b_seg[k].prev)
              /\ \A j \in 1 .. Len(loc.b_seg[k].prev) :
                   loc.b_seg[k].next[j] = loc.b_seg[k].prev[j] + 1
         /\ \A t \in 0 .. loc.T - 2 : \A k \in {0, 1} :
              t \in Range(loc.b_seg[k].prev) <=> k = SegmentOf(t, loc.T)
         /\ \A k \in {0, 1} : Range(loc.b_seg[k].prev) \subseteq 0 .. loc.T - 2

C12_Witness ==
  /\ FitReturned
  /\ loc.T % 2 = 1
  /\ loc.n_closed > 0
  /\ <<(loc.T \div 2) - 1, 0>> \in loc.f_in
  /\ <<loc.T \div 2, 1>> \in loc.f_in
  /\ <<loc.T \div 2, 1>> \in loc.s_in
  /\ <<loc.T \div 2, 1>> \in loc.l_in
  /\ loc.T \div 2 \in Range(loc.b_seg[1].prev)

====
